---- MODULE Spec2Model ----
(***************************************************************************)
(* A model of the attribute-access machinery demonstrated in               *)
(* pythess/descriptors/descriptors.ipynb: the attribute resolution order,  *)
(* the descriptor protocol, name mangling, and the toy descriptors         *)
(* MyClassmethod, MyStaticmethod, MyProperty and NonNegativeField.         *)
(*                                                                         *)
(* Every Python object is a record with a "kind" field.  A class is a      *)
(* record [base, meta, dict]; an instance is a record [cls, dict].         *)
(***************************************************************************)
EXTENDS Integers, Sequences, FiniteSets, TLC

VARIABLES classes, objects, lastOp

vars == <<classes, objects, lastOp>>

(* ------------------------------ bounds -------------------------------- *)

\* integers offered as attribute values range over -1 .. MaxVal
MaxVal == 1

(* ------------------------- Python objects ----------------------------- *)

None == [kind |-> "None"]

PyInt(n) == [kind |-> "int", value |-> n]

PyStr(s) == [kind |-> "str", text |-> s]

Function(name) == [kind |-> "function", name |-> name]

InstanceRef(id) == [kind |-> "instance", id |-> id]

ClassRef(name) == [kind |-> "class", name |-> name]

Missing == [kind |-> "missing"]

EmptyDict == [k \in {} |-> None]

Put(d, k, v) == [x \in DOMAIN d \cup {k} |-> IF x = k THEN v ELSE d[x]]

Unbound == [cls |-> "", dict |-> EmptyDict]

\* the outcome of evaluating a piece of Python: the exception raised ("" for
\* none), the value produced, the instance __dict__ afterwards and the user
\* functions called, in order
Outcome(raised, value, dict, calls) ==
    [raised |-> raised, value |-> value, dict |-> dict, calls |-> calls]

Call(func, args, kwargs) == [func |-> func, args |-> args, kwargs |-> kwargs]

(* --------------------- class NonNegativeField ------------------------- *)

NonNegativeField(field) == [kind |-> "NonNegativeField", field |-> field]

\* __get__(self, instance, owner): instance.__dict__[self.field]
NonNegativeField_get(self, instance, idict) ==
    IF instance = None
    THEN Outcome("AttributeError", None, idict, <<>>)
    ELSE IF self.field \in DOMAIN idict
         THEN Outcome("", idict[self.field], idict, <<>>)
         ELSE Outcome("KeyError", None, idict, <<>>)

\* a faulty __set__: the test of the sign is missing
NonNegativeField_set_unchecked(self, idict, value) ==
    Outcome("", None, Put(idict, self.field, value), <<>>)

\* a faulty __set__: the value is stored before its sign is tested
NonNegativeField_set_store_first(self, idict, value) ==
    IF value.value < 0
    THEN Outcome("ValueError", None, Put(idict, self.field, value), <<>>)
    ELSE Outcome("", None, Put(idict, self.field, value), <<>>)

\* __set__(self, instance, value), on the instance whose __dict__ is idict
NonNegativeField_set(self, idict, value) ==
    IF value.value < 0
    THEN Outcome("ValueError", None, idict, <<>>)
    ELSE Outcome("", None, Put(idict, self.field, value), <<>>)

(* ------------------------- class MyProperty --------------------------- *)

MyProperty_init(fget, fset, fdel) ==
    [kind |-> "MyProperty", fget |-> fget, fset |-> fset, fdel |-> fdel]

MyProperty_setter(self, fset) == MyProperty_init(self.fget, fset, self.fdel)

\* class A of the property demo: the bodies of the functions behind x
A_x_getter(idict) ==
    IF "_x" \in DOMAIN idict
    THEN Outcome("", idict["_x"], idict, <<>>)
    ELSE Outcome("AttributeError", None, idict, <<>>)

A_x_setter(idict, value) == Outcome("", None, Put(idict, "_x", value), <<>>)

(* ------------------- classes Mapping, MappingSubclass ----------------- *)

List(items) == [kind |-> "list", items |-> items]

Tuple(items) == [kind |-> "tuple", items |-> items]

Min(m, n) == IF m <= n THEN m ELSE n

\* zip(keys, values): pairs up to the end of the shorter one
Zip(keys, values) ==
    [j \in 1 .. Min(Len(keys), Len(values)) |-> Tuple(<<keys[j], values[j]>>)]

\* self.items_list.append(item), for each item in turn
AppendAll(idict, items) ==
    IF "items_list" \in DOMAIN idict
    THEN Outcome("", None,
                 Put(idict, "items_list", List(idict["items_list"].items \o items)), <<>>)
    ELSE Outcome("AttributeError", None, idict, <<>>)

\* Mapping.update(self, iterable)
Mapping_update(idict, iterable) == AppendAll(idict, iterable.items)

\* MappingSubclass.update(self, keys, values)
MappingSubclass_update(idict, keys, values) ==
    AppendAll(idict, Zip(keys.items, values.items))

\* the parameter names of the functions the notebook defines
Params(fname) ==
    CASE fname = "A.foo" -> <<"self">>
      [] fname = "A.bar" -> <<"cls">>
      [] fname = "A.baz" -> <<>>
      [] fname = "A.x.getter" -> <<"self">>
      [] fname = "A.x.setter" -> <<"self", "value">>
      [] fname = "__getattr__" -> <<"self", "value">>
      [] fname = "Mapping.update" -> <<"self", "iterable">>
      [] fname = "MappingSubclass.update" -> <<"self", "keys", "values">>
      [] OTHER -> <<>>

\* whether a call with these arguments fills every parameter exactly once
Binds(fname, args, kwargs) ==
    LET ps == Params(fname)
    IN  /\ Len(args) <= Len(ps)
        /\ \A k \in DOMAIN kwargs : \E j \in Len(args) + 1 .. Len(ps) : ps[j] = k
        /\ \A j \in Len(args) + 1 .. Len(ps) : ps[j] \in DOMAIN kwargs

\* a call of a user function: the call is logged, then the body runs
CallFunction(f, args, kwargs, idict) ==
    LET body == CASE ~Binds(f.name, args, kwargs) -> Outcome("TypeError", None, idict, <<>>)
                  [] f.name = "A.x.getter" -> A_x_getter(idict)
                  [] f.name = "A.x.setter" -> A_x_setter(idict, args[2])
                  [] f.name = "__getattr__" -> Outcome("", args[2], idict, <<>>)
                  [] f.name = "Mapping.update" -> Mapping_update(idict, args[2])
                  [] f.name = "MappingSubclass.update" ->
                         MappingSubclass_update(idict, args[2], args[3])
                  [] OTHER -> Outcome("", None, idict, <<>>)
    IN  Outcome(body.raised, body.value, body.dict, <<Call(f.name, args, kwargs)>>)

\* a faulty __get__: the test for an access from the class is missing
MyProperty_get_always_fget(self, instance, owner, idict) ==
    IF self.fget = None
    THEN Outcome("AttributeError", None, idict, <<>>)
    ELSE CallFunction(self.fget, <<instance>>, EmptyDict, idict)

MyProperty_get(self, instance, owner, idict) ==
    IF instance = None
    THEN Outcome("", self, idict, <<>>)
    ELSE IF self.fget = None
         THEN Outcome("AttributeError", None, idict, <<>>)
         ELSE CallFunction(self.fget, <<instance>>, EmptyDict, idict)

MyProperty_set(self, instance, idict, value) ==
    IF self.fset = None
    THEN Outcome("AttributeError", None, idict, <<>>)
    ELSE LET r == CallFunction(self.fset, <<instance, value>>, EmptyDict, idict)
         IN  Outcome(r.raised, None, r.dict, r.calls)

MyProperty_delete(self, instance, idict) ==
    IF self.fdel = None
    THEN Outcome("AttributeError", None, idict, <<>>)
    ELSE LET r == CallFunction(self.fdel, <<instance>>, EmptyDict, idict)
         IN  Outcome(r.raised, None, r.dict, r.calls)

(* --------------- classes MyClassmethod, MyStaticmethod ---------------- *)

MyClassmethod(func) == [kind |-> "MyClassmethod", func |-> func]

\* a faulty __get__: the instance, when there is one, is bound instead of owner
MyClassmethod_get_binds_instance(self, instance, owner) ==
    [kind |-> "cls_wrapper", func |-> self.func,
     owner |-> IF instance = None THEN owner ELSE instance]

\* the closure cls_wrapper, which keeps self.func and owner
MyClassmethod_get(self, instance, owner) ==
    [kind |-> "cls_wrapper", func |-> self.func, owner |-> owner]

MyStaticmethod(func) == [kind |-> "MyStaticmethod", func |-> func]

\* a faulty __get__: the function is bound to the instance it is read from
MyStaticmethod_get_binds_instance(self, instance, owner) ==
    IF instance = None
    THEN self.func
    ELSE [kind |-> "method", func |-> self.func, self |-> instance]

MyStaticmethod_get(self, instance, owner) == self.func

\* a plain function found in a class binds the instance it is read from
Function_get(self, instance, owner) ==
    IF instance = None
    THEN self
    ELSE [kind |-> "method", func |-> self, self |-> instance]

\* callable(*args, **kwargs); idict is the __dict__ of the instance a bound
\* method is bound to
CallObject(callable, args, kwargs, idict) ==
    CASE callable.kind = "cls_wrapper" ->
             CallFunction(callable.func, <<callable.owner>> \o args, kwargs, idict)
      [] callable.kind = "method" ->
             CallFunction(callable.func, <<callable.self>> \o args, kwargs, idict)
      [] callable.kind = "function" ->
             CallFunction(callable, args, kwargs, idict)
      [] OTHER -> Outcome("TypeError", None, idict, <<>>)

(* ------------------- the descriptor protocol -------------------------- *)

\* the protocol methods the type of an object defines
Methods(obj) ==
    CASE obj.kind = "NonNegativeField" -> {"__get__", "__set__"}
      [] obj.kind = "MyProperty" -> {"__get__", "__set__", "__delete__"}
      [] obj.kind = "MyClassmethod" -> {"__get__"}
      [] obj.kind = "MyStaticmethod" -> {"__get__"}
      [] obj.kind = "function" -> {"__get__"}
      [] obj.kind = "descriptor" -> obj.methods
      [] OTHER -> {}

IsDataDescriptor(obj) == Methods(obj) \cap {"__set__", "__delete__"} # {}

\* obj.__get__(instance, owner)
DescrGet(obj, instance, owner, idict) ==
    CASE obj.kind = "NonNegativeField" -> NonNegativeField_get(obj, instance, idict)
      [] obj.kind = "MyProperty" -> MyProperty_get(obj, instance, owner, idict)
      [] obj.kind = "MyClassmethod" ->
             Outcome("", MyClassmethod_get(obj, instance, owner), idict, <<>>)
      [] obj.kind = "MyStaticmethod" ->
             Outcome("", MyStaticmethod_get(obj, instance, owner), idict, <<>>)
      [] obj.kind = "function" ->
             Outcome("", Function_get(obj, instance, owner), idict, <<>>)
      [] OTHER -> Outcome("", [kind |-> "get_result", of |-> obj.id,
                               instance |-> instance, owner |-> owner], idict, <<>>)

\* obj.__set__(instance, value)
DescrSet(obj, instance, idict, value) ==
    CASE obj.kind = "NonNegativeField" -> NonNegativeField_set(obj, idict, value)
      [] obj.kind = "MyProperty" -> MyProperty_set(obj, instance, idict, value)
      [] OTHER -> Outcome("", None, idict, <<>>)

\* obj.__delete__(instance)
DescrDelete(obj, instance, idict) ==
    CASE obj.kind = "MyProperty" -> MyProperty_delete(obj, instance, idict)
      [] OTHER -> Outcome("", None, idict, <<>>)

(* --------------------- attribute resolution --------------------------- *)

RECURSIVE MRO(_, _)
MRO(cs, c) == IF c \in DOMAIN cs THEN <<c>> \o MRO(cs, cs[c].base) ELSE <<>>

\* the first entry for name in the __dict__ of c or of a class up its MRO
TypeLookup(cs, c, name) ==
    LET Has(k) == name \in DOMAIN cs[k].dict
        hits == SelectSeq(MRO(cs, c), Has)
    IN  IF hits = <<>> THEN Missing ELSE cs[hits[1]].dict[name]

\* a faulty order: the instance __dict__ is consulted before data descriptors
InstanceGetattr_instance_first(cs, a, obj, name) ==
    LET c == TypeLookup(cs, obj.cls, name)
        owner == ClassRef(obj.cls)
        ga == TypeLookup(cs, obj.cls, "__getattr__")
    IN  IF name \in DOMAIN obj.dict
        THEN Outcome("", obj.dict[name], obj.dict, <<>>)
        ELSE IF c # Missing
        THEN IF "__get__" \in Methods(c)
             THEN DescrGet(c, a, owner, obj.dict)
             ELSE Outcome("", c, obj.dict, <<>>)
        ELSE IF ga # Missing
        THEN CallFunction(ga, <<a, PyStr(name)>>, EmptyDict, obj.dict)
        ELSE Outcome("AttributeError", None, obj.dict, <<>>)

\* a.name, for the instance a whose state is obj
InstanceGetattr(cs, a, obj, name) ==
    LET c == TypeLookup(cs, obj.cls, name)
        owner == ClassRef(obj.cls)
        ga == TypeLookup(cs, obj.cls, "__getattr__")
    IN  IF c # Missing /\ IsDataDescriptor(c) /\ "__get__" \in Methods(c)
        THEN DescrGet(c, a, owner, obj.dict)
        ELSE IF name \in DOMAIN obj.dict
        THEN Outcome("", obj.dict[name], obj.dict, <<>>)
        ELSE IF c # Missing
        THEN IF "__get__" \in Methods(c)
             THEN DescrGet(c, a, owner, obj.dict)
             ELSE Outcome("", c, obj.dict, <<>>)
        ELSE IF ga # Missing
        THEN CallFunction(ga, <<a, PyStr(name)>>, EmptyDict, obj.dict)
        ELSE Outcome("AttributeError", None, obj.dict, <<>>)

\* a faulty assignment: the value goes to the instance __dict__ whatever the
\* class holds under the name
InstanceSetattr_bypass(cs, a, obj, name, value) ==
    Outcome("", None, Put(obj.dict, name, value), <<>>)

\* a.name = value
InstanceSetattr(cs, a, obj, name, value) ==
    LET c == TypeLookup(cs, obj.cls, name)
    IN  IF c # Missing /\ "__set__" \in Methods(c)
        THEN DescrSet(c, a, obj.dict, value)
        ELSE IF c # Missing /\ IsDataDescriptor(c)
        THEN Outcome("AttributeError", None, obj.dict, <<>>)
        ELSE Outcome("", None, Put(obj.dict, name, value), <<>>)

\* a faulty class assignment: the object the class holds stays in place
ClassSetattr_ignored(cs, cname, name, value) == cs

\* C.name = value: the value replaces whatever the class __dict__ holds
ClassSetattr(cs, cname, name, value) ==
    [cs EXCEPT ![cname].dict = Put(cs[cname].dict, name, value)]

Remove(d, k) == [x \in DOMAIN d \ {k} |-> d[x]]

\* del a.name
InstanceDelattr(cs, a, obj, name) ==
    LET c == TypeLookup(cs, obj.cls, name)
    IN  IF c # Missing /\ "__delete__" \in Methods(c)
        THEN DescrDelete(c, a, obj.dict)
        ELSE IF c # Missing /\ IsDataDescriptor(c)
        THEN Outcome("AttributeError", None, obj.dict, <<>>)
        ELSE IF name \in DOMAIN obj.dict
        THEN Outcome("", None, Remove(obj.dict, name), <<>>)
        ELSE Outcome("AttributeError", None, obj.dict, <<>>)

\* C.name, for the class named cname
ClassGetattr(cs, cname, name) ==
    LET meta == cs[cname].meta
        m == TypeLookup(cs, meta, name)
        c == TypeLookup(cs, cname, name)
        ga == TypeLookup(cs, meta, "__getattr__")
        cdict == cs[cname].dict
    IN  IF m # Missing /\ IsDataDescriptor(m) /\ "__get__" \in Methods(m)
        THEN DescrGet(m, ClassRef(cname), ClassRef(meta), cdict)
        ELSE IF c # Missing
        THEN IF "__get__" \in Methods(c)
             THEN DescrGet(c, None, ClassRef(cname), cdict)
             ELSE Outcome("", c, cdict, <<>>)
        ELSE IF c # Missing
        THEN IF "__get__" \in Methods(c)
             THEN DescrGet(c, None, ClassRef(cname), cdict)
             ELSE Outcome("", c, cdict, <<>>)
        ELSE IF ga # Missing
        THEN CallFunction(ga, <<ClassRef(cname), PyStr(name)>>, EmptyDict, cdict)
        ELSE Outcome("AttributeError", None, cdict, <<>>)

(* ------------------ the validation-field example ---------------------- *)

Fields == {"points", "rebounds", "steals"}

Values == {PyInt(n) : n \in -1 .. MaxVal}

named_descriptors(clsdict) ==
    [name \in DOMAIN clsdict |->
        IF clsdict[name].kind = "NonNegativeField"
        THEN [clsdict[name] EXCEPT !.field = name]
        ELSE clsdict[name]]

BasketballGameA ==
    [base |-> "object", meta |-> "type",
     dict |-> [points |-> NonNegativeField("points"),
               rebounds |-> NonNegativeField("rebounds"),
               steals |-> NonNegativeField("steals")]]

BasketballGameB ==
    [base |-> "object", meta |-> "type",
     dict |-> named_descriptors([points |-> NonNegativeField(""),
                                 rebounds |-> NonNegativeField(""),
                                 steals |-> NonNegativeField("")])]

GameClasses == [BasketballGameA |-> BasketballGameA, BasketballGameB |-> BasketballGameB]

\* the instances of the demo cells: a = BasketballGameA(...), b = BasketballGameB(...)
GameInstances == [a |-> "BasketballGameA", b |-> "BasketballGameB"]

\* __init__(self, points, rebounds, steals): three assignments through self
BasketballGame_init(cs, a, cls, points, rebounds, steals) ==
    LET o0 == [cls |-> cls, dict |-> EmptyDict]
        r1 == InstanceSetattr(cs, a, o0, "points", points)
        o1 == [o0 EXCEPT !.dict = r1.dict]
        r2 == InstanceSetattr(cs, a, o1, "rebounds", rebounds)
        o2 == [o1 EXCEPT !.dict = r2.dict]
        r3 == InstanceSetattr(cs, a, o2, "steals", steals)
    IN  IF r1.raised # "" THEN r1
        ELSE IF r2.raised # "" THEN r2
        ELSE r3

\* what a dict holds under a name, Missing when it holds nothing
Stored(d, name) == IF name \in DOMAIN d THEN d[name] ELSE Missing

\* the record of the last operation: what was asked (op, target, name, value),
\* what the target's __dict__ held under name before it, and how it ended
Op(op, target, name, value, before, out) ==
    [op |-> op, target |-> target, name |-> name, value |-> value,
     before |-> before, args |-> <<>>, kwargs |-> EmptyDict,
     raised |-> out.raised, result |-> out.value, calls |-> out.calls]

WithArgs(oprec, args, kwargs) == [oprec EXCEPT !.args = args, !.kwargs = kwargs]

NoOp == Op("", "", "", None, Missing, Outcome("", None, EmptyDict, <<>>))

GameInit ==
    /\ classes = GameClasses
    /\ objects = [i \in DOMAIN GameInstances |-> Unbound]
    /\ lastOp = NoOp

\* i = Cls(points, rebounds, steals), run once for each demo variable; a
\* failed construction binds nothing
GameConstruct(i, p, r, s) ==
    objects[i] = Unbound /\
    LET out == BasketballGame_init(classes, InstanceRef(i), GameInstances[i], p, r, s)
    IN  /\ objects' = IF out.raised = ""
                      THEN [objects EXCEPT ![i] = [cls |-> GameInstances[i], dict |-> out.dict]]
                      ELSE objects
        /\ lastOp' = Op("construct", i, "", None, Missing, out)
        /\ UNCHANGED classes

\* i.name = v
SetAttr(i, name, v) ==
    /\ objects[i] # Unbound
    /\ LET out == InstanceSetattr(classes, InstanceRef(i), objects[i], name, v)
       IN  /\ objects' = [objects EXCEPT ![i].dict = out.dict]
           /\ lastOp' = Op("set", i, name, v, Stored(objects[i].dict, name), out)
    /\ UNCHANGED classes

\* i.name
GetAttr(i, name) ==
    /\ objects[i] # Unbound
    /\ LET out == InstanceGetattr(classes, InstanceRef(i), objects[i], name)
       IN  /\ objects' = [objects EXCEPT ![i].dict = out.dict]
           /\ lastOp' = Op("get", i, name, None, Stored(objects[i].dict, name), out)
    /\ UNCHANGED classes

GameNext ==
    \/ \E i \in DOMAIN GameInstances : \E p, r, s \in Values : GameConstruct(i, p, r, s)
    \/ \E i \in DOMAIN GameInstances : \E name \in Fields : \E v \in Values : SetAttr(i, name, v)
    \/ \E i \in DOMAIN GameInstances : \E name \in Fields : GetAttr(i, name)

SpecGame == GameInit /\ [][GameNext]_vars

(* ---------------------- the property example -------------------------- *)

\* class A: x = MyProperty(x), then x = x.setter(x)
PropertyA ==
    [base |-> "object", meta |-> "type",
     dict |-> [x |-> MyProperty_setter(
                         MyProperty_init(Function("A.x.getter"), None, None),
                         Function("A.x.setter"))]]

PropertyClasses == [A |-> PropertyA]

PropertyInstances == {"a", "a2"}

\* what the demo assigns at class level: a plain object, never a descriptor
ClassValues == Values \cup {PyStr("bye bye descriptor")}

\* __init__(self, x): self._x = x
A_init(cs, a, x) ==
    InstanceSetattr(cs, a, [cls |-> "A", dict |-> EmptyDict], "_x", x)

PropertyInit ==
    /\ classes = PropertyClasses
    /\ objects = [i \in PropertyInstances |-> Unbound]
    /\ lastOp = NoOp

\* i = A(v)
PropertyConstruct(i, v) ==
    LET out == A_init(classes, InstanceRef(i), v)
    IN  /\ objects' = [objects EXCEPT ![i] = [cls |-> "A", dict |-> out.dict]]
        /\ lastOp' = Op("construct", i, "", v, Missing, out)
        /\ UNCHANGED classes

\* del i.name
DelAttr(i, name) ==
    /\ objects[i] # Unbound
    /\ LET out == InstanceDelattr(classes, InstanceRef(i), objects[i], name)
       IN  /\ objects' = [objects EXCEPT ![i].dict = out.dict]
           /\ lastOp' = Op("del", i, name, None, Stored(objects[i].dict, name), out)
    /\ UNCHANGED classes

\* C.name
GetClassAttr(c, name) ==
    /\ lastOp' = Op("class_get", c, name, None, Stored(classes[c].dict, name),
                    ClassGetattr(classes, c, name))
    /\ UNCHANGED <<classes, objects>>

\* C.name = v
SetClassAttr(c, name, v) ==
    /\ classes' = ClassSetattr(classes, c, name, v)
    /\ lastOp' = Op("class_set", c, name, v, Stored(classes[c].dict, name),
                    Outcome("", None, EmptyDict, <<>>))
    /\ UNCHANGED objects

PropertyNext ==
    \/ \E i \in PropertyInstances : \E v \in Values : PropertyConstruct(i, v)
    \/ \E i \in PropertyInstances : \E v \in Values : SetAttr(i, "x", v)
    \/ \E i \in PropertyInstances : GetAttr(i, "x")
    \/ \E i \in PropertyInstances : DelAttr(i, "x")
    \/ GetClassAttr("A", "x")
    \/ \E v \in ClassValues : SetClassAttr("A", "x", v)

SpecProperty == PropertyInit /\ [][PropertyNext]_vars


(* --------------- the classmethod / staticmethod example --------------- *)

MaxArgs == 2

\* class A of the demo, and a subclass that adds nothing: class Sub(A): pass
MethodsA ==
    [base |-> "object", meta |-> "type",
     dict |-> [foo |-> Function("A.foo"),
               bar |-> MyClassmethod(Function("A.bar")),
               baz |-> MyStaticmethod(Function("A.baz"))]]

MethodsClasses ==
    [A |-> MethodsA, Sub |-> [base |-> "A", meta |-> "type", dict |-> EmptyDict]]

\* a = A(), s = Sub()
MethodsInstances == [a |-> "A", s |-> "Sub"]

ArgLists == UNION {[1 .. n -> Values] : n \in 0 .. MaxArgs}

KwargDicts == {EmptyDict, [cls |-> PyInt(0)]}

\* the class an attribute is read from: a class itself, or an instance's class
OwnerOf(target) ==
    IF target \in DOMAIN classes THEN target ELSE objects[target].cls

MethodsInit ==
    /\ classes = MethodsClasses
    /\ objects = [i \in DOMAIN MethodsInstances |->
                      [cls |-> MethodsInstances[i], dict |-> EmptyDict]]
    /\ lastOp = NoOp

\* (the object just read)(*args, **kwargs)
CallAccessed(args, kwargs) ==
    /\ lastOp.op \in {"get", "class_get"}
    /\ lastOp.raised = ""
    /\ lastOp' = WithArgs(Op("call", lastOp.target, lastOp.name, lastOp.result, Missing,
                             CallObject(lastOp.result, args, kwargs, EmptyDict)),
                          args, kwargs)
    /\ UNCHANGED <<classes, objects>>

MethodsNext ==
    \/ \E i \in DOMAIN MethodsInstances : \E name \in {"foo", "bar", "baz"} : GetAttr(i, name)
    \/ \E c \in DOMAIN MethodsClasses : \E name \in {"foo", "bar", "baz"} : GetClassAttr(c, name)
    \/ \E args \in ArgLists : \E kwargs \in KwargDicts : CallAccessed(args, kwargs)

SpecMethods == MethodsInit /\ [][MethodsNext]_vars


(* ----------------------- the name mangling example -------------------- *)

\* the items all live items_list hold together never exceed MaxItems
MaxItems == 3

\* an identifier: leading underscores, a stem, trailing underscores
Ident(lead, stem, trail) == [lead |-> lead, stem |-> stem, trail |-> trail]

RECURSIVE Underscores(_)
Underscores(n) == IF n = 0 THEN "" ELSE "_" \o Underscores(n - 1)

Render(id) == Underscores(id.lead) \o id.stem \o Underscores(id.trail)

\* an identifier as the compiler reads it inside the body of class cls
Mangle(cls, id) ==
    IF id.lead >= 2 /\ id.trail <= 1
    THEN "_" \o Render([cls EXCEPT !.lead = 0]) \o Render(id)
    ELSE Render(id)

MappingIdent == Ident(0, "Mapping", 0)

\* class Mapping: update, and __update = update
MappingClass ==
    [base |-> "object", meta |-> "type",
     dict |-> Put([update |-> Function("Mapping.update")],
                  Mangle(MappingIdent, Ident(2, "update", 0)),
                  Function("Mapping.update"))]

\* class MappingSubclass(Mapping): its own update
MappingSubclassClass ==
    [base |-> "Mapping", meta |-> "type",
     dict |-> [update |-> Function("MappingSubclass.update")]]

MappingClasses == [Mapping |-> MappingClass, MappingSubclass |-> MappingSubclassClass]

\* m = Mapping(...), ms = MappingSubclass(...)
MappingInstances == [m |-> "Mapping", ms |-> "MappingSubclass"]

\* a.name(*args): the attribute is read, then called
CallMethod(cs, a, obj, name, args) ==
    LET got == InstanceGetattr(cs, a, obj, name)
    IN  IF got.raised # "" THEN got ELSE CallObject(got.value, args, EmptyDict, obj.dict)

\* a faulty __init__: it calls self.update, which a subclass may override
Mapping_init_calls_update(cs, a, cls, iterable) ==
    LET r1 == InstanceSetattr(cs, a, [cls |-> cls, dict |-> EmptyDict], "items_list", List(<<>>))
    IN  CallMethod(cs, a, [cls |-> cls, dict |-> r1.dict], "update", <<iterable>>)

\* Mapping.__init__(self, iterable)
Mapping_init(cs, a, cls, iterable) ==
    LET r1 == InstanceSetattr(cs, a, [cls |-> cls, dict |-> EmptyDict], "items_list", List(<<>>))
    IN  CallMethod(cs, a, [cls |-> cls, dict |-> r1.dict],
                   Mangle(MappingIdent, Ident(2, "update", 0)), <<iterable>>)

\* the iterables offered as iterable and keys, and those offered as values
Iterables == {List(<<>>), List(<<PyInt(1)>>), List(<<PyInt(1), PyInt(2)>>)}

ValueLists == {List(<<PyStr("three")>>), List(<<PyStr("three"), PyStr("four")>>)}

Items(i) == objects[i].dict["items_list"].items

TotalItems(objs) ==
    LET n(i) == IF objs[i] = Unbound THEN 0 ELSE Len(objs[i].dict["items_list"].items)
    IN  n("m") + n("ms")

MappingInit ==
    /\ classes = MappingClasses
    /\ objects = [i \in DOMAIN MappingInstances |-> Unbound]
    /\ lastOp = NoOp

\* i = Cls(iterable); a failed construction binds nothing
MappingConstruct(i, iterable) ==
    LET out == Mapping_init(classes, InstanceRef(i), MappingInstances[i], iterable)
    IN  /\ objects' = IF out.raised = ""
                      THEN [objects EXCEPT ![i] = [cls |-> MappingInstances[i], dict |-> out.dict]]
                      ELSE objects
        /\ TotalItems(objects') <= MaxItems
        /\ lastOp' = WithArgs(Op("construct", i, "", None, Missing, out), <<iterable>>, EmptyDict)
        /\ UNCHANGED classes

\* i.name(*args)
MappingCall(i, name, args) ==
    /\ objects[i] # Unbound
    /\ LET out == CallMethod(classes, InstanceRef(i), objects[i], name, args)
       IN  /\ objects' = [objects EXCEPT ![i].dict = out.dict]
           /\ TotalItems(objects') <= MaxItems
           /\ lastOp' = WithArgs(Op("call", i, name, None, Missing, out), args, EmptyDict)
    /\ UNCHANGED classes

MappingNext ==
    \/ \E i \in DOMAIN MappingInstances : \E it \in Iterables : MappingConstruct(i, it)
    \/ \E i \in DOMAIN MappingInstances : \E name \in {"update", "_Mapping__update"} :
           \E it \in Iterables : MappingCall(i, name, <<it>>)
    \/ \E i \in DOMAIN MappingInstances : \E name \in {"update", "_Mapping__update"} :
           \E keys \in Iterables : \E values \in ValueLists :
               MappingCall(i, name, <<keys, values>>)

SpecMapping == MappingInit /\ [][MappingNext]_vars


(* ------------------- the attribute access order ----------------------- *)

\* a descriptor whose type defines the given protocol methods, stored at loc
Descriptor(loc, methods) == [kind |-> "descriptor", id |-> loc, methods |-> methods]

ProtocolMethods == {"__get__", "__set__", "__delete__"}

\* what the __dict__ at loc may hold under x: nothing, a plain object, or a
\* descriptor with any of the protocol methods
DictChoices(loc) ==
    {EmptyDict, [x |-> PyStr(loc)]}
        \cup {[x |-> Descriptor(loc, ms)] : ms \in (SUBSET ProtocolMethods) \ {{}}}

\* the same, with or without a __getattr__ method
WithGetattr(dicts) == dicts \cup {Put(d, "__getattr__", Function("__getattr__")) : d \in dicts}

\* class K(Base, metaclass=Meta), class Meta(MetaBase), and o = K()
LookupInit ==
    /\ \E dk \in DictChoices("K") : \E db \in WithGetattr(DictChoices("Base")) :
       \E dm \in DictChoices("Meta") : \E dmb \in WithGetattr(DictChoices("MetaBase")) :
           classes = [K |-> [base |-> "Base", meta |-> "Meta", dict |-> dk],
                      Base |-> [base |-> "object", meta |-> "Meta", dict |-> db],
                      Meta |-> [base |-> "MetaBase", meta |-> "type", dict |-> dm],
                      MetaBase |-> [base |-> "type", meta |-> "type", dict |-> dmb]]
    /\ \E d \in {EmptyDict, [x |-> PyStr("o")]} : objects = [o |-> [cls |-> "K", dict |-> d]]
    /\ lastOp = NoOp

LookupNext ==
    \/ GetAttr("o", "x")
    \/ GetClassAttr("K", "x")

SpecLookup == LookupInit /\ [][LookupNext]_vars

(* ----------------------------- claims -------------------------------- *)

\* C1: after any sequence of constructions and assignments instance.field =
\* value, every value stored in an instance of BasketballGameA or
\* BasketballGameB is non-negative, and an assignment of exactly 0 is accepted
\* and stored.
C1_StoredValuesNonNegative ==
    /\ \A i \in DOMAIN objects : \A k \in DOMAIN objects[i].dict :
           objects[i].dict[k].value >= 0
    /\ (lastOp.op = "set" /\ lastOp.value = PyInt(0)) =>
           /\ lastOp.raised = ""
           /\ Stored(objects[lastOp.target].dict, lastOp.name) = PyInt(0)

C1_Witness ==
    /\ \A i \in DOMAIN objects : DOMAIN objects[i].dict = Fields
    /\ lastOp.op = "set" /\ lastOp.value = PyInt(0) /\ lastOp.before = PyInt(1)
    /\ \E i \in DOMAIN objects : \E k \in Fields : objects[i].dict[k] = PyInt(1)

\* C2: assigning a negative value to a NonNegativeField attribute of an
\* existing instance raises ValueError and changes no stored value of any
\* instance; a read of the attribute that follows returns the value it held
\* before the assignment.
C2_NegativeAssignmentRejected ==
    [][/\ (lastOp'.op = "set" /\ lastOp'.value.value < 0) =>
              /\ lastOp'.raised = "ValueError"
              /\ objects' = objects
       /\ (/\ lastOp.op = "set" /\ lastOp.raised = "ValueError"
           /\ lastOp'.op = "get"
           /\ lastOp'.target = lastOp.target /\ lastOp'.name = lastOp.name) =>
              /\ lastOp'.raised = ""
              /\ lastOp'.result = lastOp.before]_vars

C2_Witness ==
    /\ lastOp.op = "set" /\ lastOp.value = PyInt(-1) /\ lastOp.raised = "ValueError"
    /\ lastOp.target = "b" /\ lastOp.name = "rebounds"
    /\ objects["b"].dict = [points |-> PyInt(0), rebounds |-> PyInt(1), steals |-> PyInt(0)]
    /\ objects["a"] # Unbound

\* the object class A holds under x
A_x == classes["A"].dict["x"]

\* C7: while A.x is the MyProperty descriptor, reading A.x returns the
\* descriptor object itself without calling fget; reading a.x calls
\* fget(a) once and returns its result, the current a._x; and a read a.x that
\* follows a.x = v returns v.
C7_PropertyRead ==
    [][A_x'.kind = "MyProperty" =>
          /\ lastOp'.op = "class_get" =>
                 /\ lastOp'.raised = ""
                 /\ lastOp'.result = A_x'
                 /\ lastOp'.calls = <<>>
          /\ (lastOp'.op = "get" /\ A_x'.fget # None) =>
                 /\ lastOp'.raised = ""
                 /\ lastOp'.calls =
                        <<Call("A.x.getter", <<InstanceRef(lastOp'.target)>>, EmptyDict)>>
                 /\ lastOp'.result = objects'[lastOp'.target].dict["_x"]
          /\ (/\ lastOp.op = "set" /\ lastOp.raised = ""
              /\ lastOp'.op = "get" /\ lastOp'.target = lastOp.target) =>
                 lastOp'.result = lastOp.value]_vars

C7_Witness ==
    /\ A_x.kind = "MyProperty"
    /\ lastOp.op = "get" /\ lastOp.target = "a" /\ lastOp.result = PyInt(1)
    /\ objects["a"].dict = [_x |-> PyInt(1)]
    /\ objects["a2"].dict = [_x |-> PyInt(0)]

\* C8: while A.x is the MyProperty descriptor, an assignment a.x = v calls
\* fset(a, v) exactly once, changes a.__dict__ only as fset does (_x becomes
\* v), and no instance __dict__ ever holds an entry named x.
C8_SetGoesThroughDescriptor ==
    A_x.kind = "MyProperty" =>
        /\ \A i \in DOMAIN objects : "x" \notin DOMAIN objects[i].dict
        /\ lastOp.op = "set" =>
               /\ lastOp.raised = ""
               /\ lastOp.calls =
                      <<Call("A.x.setter", <<InstanceRef(lastOp.target), lastOp.value>>,
                             EmptyDict)>>
               /\ objects[lastOp.target].dict = [_x |-> lastOp.value]

C8_Witness ==
    /\ A_x.kind = "MyProperty"
    /\ lastOp.op = "set" /\ lastOp.target = "a" /\ lastOp.value = PyInt(1)
    /\ objects["a"].dict = [_x |-> PyInt(1)]
    /\ objects["a2"].dict = [_x |-> PyInt(0)]

\* C9 as stated: A.x = value calls no function, replaces the object stored in
\* the class and leaves every instance __dict__ alone, and from then on every
\* read a.x on any instance returns the class's plain value without calling
\* the getter.
C9_Original ==
    [][/\ lastOp'.op = "class_set" =>
              /\ lastOp'.calls = <<>>
              /\ A_x' = lastOp'.value
              /\ objects' = objects
       /\ (lastOp'.op = "get" /\ A_x'.kind # "MyProperty") =>
              /\ lastOp'.raised = ""
              /\ lastOp'.result = A_x'
              /\ lastOp'.calls = <<>>]_vars

\* C9 as amended: the same, but a read a.x returns the class's plain value
\* only while a.__dict__ has no entry x of its own; once a.x = w has been
\* assigned after the replacement, a.__dict__ holds x and a.x returns that
\* entry.  No read calls the getter.
C9_ClassAssignmentReplacesDescriptor ==
    [][/\ lastOp'.op = "class_set" =>
              /\ lastOp'.calls = <<>>
              /\ A_x' = lastOp'.value
              /\ objects' = objects
       /\ (lastOp'.op = "get" /\ A_x'.kind # "MyProperty") =>
              /\ lastOp'.raised = ""
              /\ lastOp'.calls = <<>>
              /\ lastOp'.result =
                     IF "x" \in DOMAIN objects'[lastOp'.target].dict
                     THEN objects'[lastOp'.target].dict["x"]
                     ELSE A_x']_vars

C9_Witness ==
    /\ A_x = PyStr("bye bye descriptor")
    /\ lastOp.op = "get" /\ lastOp.target = "a"
    /\ lastOp.result = PyStr("bye bye descriptor")
    /\ objects["a"].dict = [_x |-> PyInt(1)]
    /\ "x" \in DOMAIN objects["a2"].dict

\* C5: reading bar, wrapped by MyClassmethod, from the class or from an
\* instance calls nothing and yields a callable; calling that with args and
\* kwargs calls the wrapped function once with the owner class first, then
\* exactly args and kwargs, never the instance, and returns what it returns.
C5_ClassmethodPassesOwner ==
    /\ (lastOp.op \in {"get", "class_get"} /\ lastOp.name = "bar") =>
           /\ lastOp.raised = ""
           /\ lastOp.result.kind = "cls_wrapper"
           /\ lastOp.calls = <<>>
    /\ (lastOp.op = "call" /\ lastOp.name = "bar") =>
           LET fullargs == <<ClassRef(OwnerOf(lastOp.target))>> \o lastOp.args
               direct == CallFunction(Function("A.bar"), fullargs, lastOp.kwargs, EmptyDict)
           IN  /\ lastOp.calls = <<Call("A.bar", fullargs, lastOp.kwargs)>>
               /\ lastOp.raised = direct.raised
               /\ lastOp.result = direct.value

C5_Witness ==
    /\ lastOp.op = "call" /\ lastOp.name = "bar" /\ lastOp.target = "s"
    /\ lastOp.args = <<>> /\ lastOp.kwargs = EmptyDict
    /\ lastOp.raised = ""
    /\ lastOp.calls = <<Call("A.bar", <<ClassRef("Sub")>>, EmptyDict)>>

\* C6: reading baz, wrapped by MyStaticmethod, from the class or from an
\* instance returns the wrapped function object itself; calling it passes
\* exactly args and kwargs, with no instance and no class bound, so the result
\* does not depend on where it was read from.
C6_StaticmethodReturnsFunction ==
    /\ (lastOp.op \in {"get", "class_get"} /\ lastOp.name = "baz") =>
           /\ lastOp.raised = ""
           /\ lastOp.result = Function("A.baz")
           /\ lastOp.calls = <<>>
    /\ (lastOp.op = "call" /\ lastOp.name = "baz") =>
           LET direct == CallFunction(Function("A.baz"), lastOp.args, lastOp.kwargs, EmptyDict)
           IN  /\ lastOp.calls = <<Call("A.baz", lastOp.args, lastOp.kwargs)>>
               /\ lastOp.raised = direct.raised
               /\ lastOp.result = direct.value

C6_Witness ==
    /\ lastOp.op = "call" /\ lastOp.name = "baz" /\ lastOp.target = "a"
    /\ lastOp.args = <<>> /\ lastOp.kwargs = EmptyDict
    /\ lastOp.raised = ""
    /\ lastOp.calls = <<Call("A.baz", <<>>, EmptyDict)>>

\* C3: MappingSubclass(iterable) runs Mapping.__init__ without error and
\* leaves items_list holding exactly the items of iterable, in order, although
\* MappingSubclass.update takes (keys, values); after that each
\* ms.update(keys, values) appends the pairs of zip(keys, values) and each
\* ms._Mapping__update(iterable) appends the items of iterable, in call order.
C3_ManglingKeepsInit ==
    [][/\ (lastOp'.op = "construct" /\ lastOp'.target = "ms") =>
              /\ lastOp'.raised = ""
              /\ lastOp'.calls =
                     <<Call("Mapping.update", <<InstanceRef("ms")>> \o lastOp'.args, EmptyDict)>>
              /\ objects'["ms"].dict = [items_list |-> List(lastOp'.args[1].items)]
       /\ (/\ lastOp'.op = "call" /\ lastOp'.target = "ms"
           /\ lastOp'.name = "update" /\ Len(lastOp'.args) = 2) =>
              /\ lastOp'.raised = ""
              /\ Len(Items("ms")') = Len(Items("ms"))
                     + Min(Len(lastOp'.args[1].items), Len(lastOp'.args[2].items))
              /\ \A j \in 1 .. Len(Items("ms")') :
                     Items("ms")'[j] =
                         IF j <= Len(Items("ms"))
                         THEN Items("ms")[j]
                         ELSE Tuple(<<lastOp'.args[1].items[j - Len(Items("ms"))],
                                      lastOp'.args[2].items[j - Len(Items("ms"))]>>)
       /\ (/\ lastOp'.op = "call" /\ lastOp'.target = "ms"
           /\ lastOp'.name = "_Mapping__update" /\ Len(lastOp'.args) = 1) =>
              /\ lastOp'.raised = ""
              /\ Items("ms")' = Items("ms") \o lastOp'.args[1].items]_vars

C3_Witness ==
    /\ objects["ms"].cls = "MappingSubclass"
    /\ Items("ms") = <<PyInt(1), Tuple(<<PyInt(1), PyStr("three")>>), PyInt(1)>>
    /\ lastOp.op = "call" /\ lastOp.target = "ms" /\ lastOp.name = "_Mapping__update"
    /\ lastOp.args = <<List(<<PyInt(1)>>)>>

\* the first entry for x along a chain of classes, the most derived first
FirstEntry(chain) ==
    LET Has(k) == "x" \in DOMAIN classes[k].dict
        hits == SelectSeq(chain, Has)
    IN  IF hits = <<>> THEN Missing ELSE classes[hits[1]].dict["x"]

HasGetattr(chain) == \E j \in 1 .. Len(chain) : "__getattr__" \in DOMAIN classes[chain[j]].dict

\* what __get__ of the descriptor d returns for (instance, owner)
GetResult(d, instance, owner) ==
    [kind |-> "get_result", of |-> d.id, instance |-> instance, owner |-> owner]

\* the read ended by returning v, and by raising nothing
Returned(v) == lastOp.raised = "" /\ lastOp.result = v

C10_ClassAccessOrder ==
    lastOp.op = "class_get" =>
        LET m == FirstEntry(<<"Meta", "MetaBase">>)
            c == FirstEntry(<<"K", "Base">>)
            k == ClassRef("K")
        IN  IF /\ m # Missing /\ Methods(m) \cap {"__set__", "__delete__"} # {}
               /\ "__get__" \in Methods(m)
            THEN Returned(GetResult(m, k, ClassRef("Meta")))
            ELSE IF c # Missing
            THEN IF "__get__" \in Methods(c)
                 THEN Returned(GetResult(c, None, k))
                 ELSE Returned(c)
            ELSE IF m # Missing
            THEN IF "__get__" \in Methods(m)
                 THEN Returned(GetResult(m, k, ClassRef("Meta")))
                 ELSE Returned(m)
            ELSE IF HasGetattr(<<"Meta", "MetaBase">>)
            THEN Returned(PyStr("x"))
            ELSE lastOp.raised = "AttributeError"

====
